---- MODULE Spec2Model ----
(***************************************************************************)
(* Request/cache layer of the Retently feedback client.                    *)
(*                                                                         *)
(* RetentlyClient (src/scripts/retently-client.ts) wraps a module-level    *)
(* PluginCache.  Every read operation goes through cache.getOrFetch with a *)
(* key, a TTL and a bypass flag; every write goes straight to request()    *)
(* and invalidates afterwards.  request() issues one fetch under a timer,  *)
(* records the rate-limit headers and classifies failures.                 *)
(*                                                                         *)
(* The PluginCache package (@local/plugin-cache) is not part of the        *)
(* sources; its operations are modelled from section 4.1 of the            *)
(* specification.                                                          *)
(*                                                                         *)
(* Time is counted in minutes.  A request timer (30000 ms) is shorter than *)
(* one unit, so the clock advances only while no timer is armed.           *)
(***************************************************************************)
EXTENDS Integers, Sequences, FiniteSets, TLC

VARIABLES
  store,             \* PluginCache: key -> [value, expiresAt]
  enabled,           \* PluginCache: global enable switch
  stats,             \* PluginCache: [hits, misses]
  cacheDisabled,     \* RetentlyClient.cacheDisabled
  lastRateLimitInfo, \* RetentlyClient.lastRateLimitInfo
  now,               \* the clock, in minutes
  ticks,             \* number of clock advances so far
  pending,           \* the operations awaiting their HTTP request
  callCount,         \* operations invoked so far
  httpCount,         \* fetch() calls issued so far
  lastResponse,      \* the response received last: its request, status, headers
  settled,           \* the request that settled last, and how
  done               \* the operation that returned or threw last, and the
                     \* cache as it was when it did

vars == <<store, enabled, stats, cacheDisabled, lastRateLimitInfo, now, ticks,
          pending, callCount, httpCount, lastResponse, settled, done>>

-----------------------------------------------------------------------------
(* Bounds of the model *)

MaxCalls == 3        \* operations invoked in one run
MaxTicks == 2        \* clock advances in one run
MaxCustomers == 4    \* length of a createCustomers input list (SpecBulk)
MaxInFlight == 2     \* operations awaiting their request at once (SpecRace)
ChunkSize == 2       \* stands for chunkSize = 1000 of createCustomers, scaled
                     \* down so that lists of more than one chunk are enumerable

-----------------------------------------------------------------------------
(* Values *)

undefined == "<undefined>"    \* a property or argument that is not set
HeaderAbsent == "<absent>"    \* Headers.get(name) of a header that was not sent
null == -1                    \* a RateLimitInfo field without a value
NaN == -2                     \* parseInt of a string that starts with no digit

Min(a, b) == IF a < b THEN a ELSE b

RECURSIVE SeqToSet(_)
SeqToSet(s) == IF Len(s) = 0 THEN {} ELSE {Head(s)} \cup SeqToSet(Tail(s))

StartsWith(s, prefix) ==
  Len(s) >= Len(prefix) /\ SubSeq(s, 1, Len(prefix)) = prefix

(* String.prototype.toLowerCase, on the letters the inputs use *)
LowerChar(c) ==
  CASE c = "A" -> "a"
    [] c = "B" -> "b"
    [] c = "X" -> "x"
    [] OTHER -> c

RECURSIVE toLowerCase(_)
toLowerCase(s) ==
  IF Len(s) = 0 THEN ""
  ELSE LowerChar(SubSeq(s, 1, 1)) \o toLowerCase(SubSeq(s, 2, Len(s)))

(* parseInt(s, 10): the number written by the longest prefix of digits *)
DigitValue(c) ==
  CASE c = "0" -> 0 [] c = "1" -> 1 [] c = "2" -> 2 [] c = "3" -> 3
    [] c = "4" -> 4 [] c = "5" -> 5 [] c = "6" -> 6 [] c = "7" -> 7
    [] c = "8" -> 8 [] c = "9" -> 9 [] OTHER -> NaN

RECURSIVE ParseDigits(_, _)
ParseDigits(s, acc) ==
  IF Len(s) = 0 \/ DigitValue(SubSeq(s, 1, 1)) = NaN THEN acc
  ELSE ParseDigits(SubSeq(s, 2, Len(s)), 10 * acc + DigitValue(SubSeq(s, 1, 1)))

parseInt(s) ==
  IF Len(s) = 0 \/ DigitValue(SubSeq(s, 1, 1)) = NaN THEN NaN
  ELSE ParseDigits(s, 0)

-----------------------------------------------------------------------------
(* PluginCache (@local/plugin-cache), modelled from section 4.1 *)

TTL_MINUTE == 1
TTL_FIVE_MINUTES == 5 * TTL_MINUTE
TTL_FIFTEEN_MINUTES == 15 * TTL_MINUTE
TTL_HOUR == 60 * TTL_MINUTE

(* createCacheKey(name, params): params is the list of the object's       *)
(* properties in insertion order; properties that are undefined are left  *)
(* out and the order of the others does not matter.                       *)
createCacheKey(name, params) ==
  [name |-> name,
   params |-> {params[i] : i \in {j \in DOMAIN params : params[j][2] # undefined}}]

(* a key given as a plain string, such as "nps_score" *)
plainKey(name) == [name |-> name, params |-> {}]

has(key) == key \in DOMAIN store

(* the lookup of getOrFetch: an entry that exists and has not expired *)
isFresh(key) == has(key) /\ now < store[key].expiresAt

(* Map.delete(key) *)
deleteEntry(st, key) == [k \in DOMAIN st \ {key} |-> st[k]]

(* a store that keeps the entry a key already has *)
setEntryIfAbsent(st, key, value, ttl) ==
  IF key \in DOMAIN st THEN st
  ELSE [k \in DOMAIN st \cup {key} |->
          IF k = key THEN [value |-> value, expiresAt |-> now + ttl] ELSE st[k]]

(* Map.set(key, {value, expiresAt: now + ttl}) *)
setEntry(st, key, value, ttl) ==
  [k \in DOMAIN st \cup {key} |->
     IF k = key THEN [value |-> value, expiresAt |-> now + ttl] ELSE st[k]]

(* invalidate(key) *)
invalidate(st, key) == deleteEntry(st, key)

(* regex.test(key) for a regex of the form /^prefix/; the string of a key *)
(* starts with the name the key was created from                          *)
regexTest(regex, key) == StartsWith(key.name, regex.prefix)

(* invalidatePattern(regex) *)
invalidatePattern(st, regex) ==
  [k \in {j \in DOMAIN st : ~regexTest(regex, j)} |-> st[k]]

(* clear() *)
clear == <<>>

(* getOrFetch that honours neither the option nor the switch *)
bypassedNever(options) == FALSE

(* getOrFetch goes straight to fetchFn, and stores nothing *)
bypassed(options) == options.bypassCache \/ ~enabled

-----------------------------------------------------------------------------
(* RetentlyClient: the read operations.  Each gives what it hands to      *)
(* cache.getOrFetch: the key, the options and the request of its fetchFn. *)

listCustomers(options) ==
  [op |-> "listCustomers",
   cacheKey |-> createCacheKey("customers",
                  << <<"page", options.page>>, <<"perPage", options.perPage>>,
                     <<"email", options.email>> >>),
   endpoint |-> "/customers",
   ttl |-> TTL_FIVE_MINUTES,
   bypassCache |-> cacheDisabled]

(* getCustomer with the TTL of listCustomers *)
getCustomerFiveMinutes(customerId) ==
  [op |-> "getCustomer",
   cacheKey |-> createCacheKey("customer", << <<"id", customerId>> >>),
   endpoint |-> "/customers/" \o customerId,
   ttl |-> TTL_FIVE_MINUTES,
   bypassCache |-> cacheDisabled]

getCustomer(customerId) ==
  [op |-> "getCustomer",
   cacheKey |-> createCacheKey("customer", << <<"id", customerId>> >>),
   endpoint |-> "/customers/" \o customerId,
   ttl |-> TTL_MINUTE,
   bypassCache |-> cacheDisabled]

(* !!options.since: undefined and the empty string are falsy *)
truthy(s) == s # undefined /\ s # ""

listFeedback(options) ==
  [op |-> "listFeedback",
   cacheKey |-> createCacheKey("feedback",
                  << <<"page", options.page>>, <<"perPage", options.perPage>>,
                     <<"campaignId", options.campaignId>>,
                     <<"since", options.since>>, <<"until", options.until>>,
                     <<"sort", options.sort>> >>),
   endpoint |-> "/feedback",
   ttl |-> TTL_MINUTE * 2,
   bypassCache |-> cacheDisabled \/ truthy(options.since)]

getFeedback(feedbackId) ==
  [op |-> "getFeedback",
   cacheKey |-> createCacheKey("feedback_detail", << <<"id", feedbackId>> >>),
   endpoint |-> "/feedback/" \o feedbackId,
   ttl |-> TTL_MINUTE,
   bypassCache |-> cacheDisabled]

getNpsScore ==
  [op |-> "getNpsScore", cacheKey |-> plainKey("nps_score"),
   endpoint |-> "/nps/score", ttl |-> TTL_HOUR, bypassCache |-> cacheDisabled]

getCsatScore ==
  [op |-> "getCsatScore", cacheKey |-> plainKey("csat_score"),
   endpoint |-> "/csat/score", ttl |-> TTL_HOUR, bypassCache |-> cacheDisabled]

getCesScore ==
  [op |-> "getCesScore", cacheKey |-> plainKey("ces_score"),
   endpoint |-> "/ces/score", ttl |-> TTL_HOUR, bypassCache |-> cacheDisabled]

listCampaigns(options) ==
  [op |-> "listCampaigns",
   cacheKey |-> createCacheKey("campaigns", << <<"limit", options.limit>> >>),
   endpoint |-> "/campaigns",
   ttl |-> TTL_FIFTEEN_MINUTES,
   bypassCache |-> cacheDisabled]

listCompanies(options) ==
  [op |-> "listCompanies",
   cacheKey |-> createCacheKey("companies",
                  << <<"page", options.page>>, <<"perPage", options.perPage>> >>),
   endpoint |-> "/companies",
   ttl |-> TTL_FIFTEEN_MINUTES,
   bypassCache |-> cacheDisabled]

-----------------------------------------------------------------------------
(* RetentlyClient.request: one fetch under a timer *)

DefaultTimeout == 30000

(* the request has sent its fetch and awaits the response *)
request(endpoint, method, body) ==
  [rid |-> httpCount + 1, method |-> method, endpoint |-> endpoint, body |-> body,
   timeout |-> DefaultTimeout, phase |-> "fetch", status |-> 0, sentAt |-> now]

NoRequest ==
  [rid |-> 0, method |-> "", endpoint |-> "", body |-> <<>>, timeout |-> 0,
   phase |-> "none", status |-> 0, sentAt |-> 0]

(* response.headers.get(name) ? parseInt(response.headers.get(name), 10) : null *)
headerNumber(h) == IF h # HeaderAbsent /\ h # "" THEN parseInt(h) ELSE null

(* a field whose header is missing keeps the number it had *)
parseRateLimitKeep(headers) ==
  [remaining |-> IF headers.remaining = HeaderAbsent
                 THEN lastRateLimitInfo.remaining ELSE headerNumber(headers.remaining),
   limit |-> IF headers.limit = HeaderAbsent
             THEN lastRateLimitInfo.limit ELSE headerNumber(headers.limit),
   reset |-> IF headers.reset = HeaderAbsent
             THEN lastRateLimitInfo.reset ELSE headerNumber(headers.reset)]

(* the RateLimitInfo read from the headers of a response *)
parseRateLimit(headers) ==
  [remaining |-> headerNumber(headers.remaining),
   limit |-> headerNumber(headers.limit),
   reset |-> headerNumber(headers.reset)]

(* response.headers.get('Retry-After') || '60' *)
retryAfterOf(headers) ==
  IF headers.retryAfter # HeaderAbsent /\ headers.retryAfter # ""
  THEN headers.retryAfter ELSE "60"

(* `Rate limit exceeded. Retry after ${retryAfter} seconds. Remaining: ${remaining}/${limit}` *)
RateLimitError(retryAfter, info) ==
  [kind |-> "RateLimit", retryAfter |-> retryAfter,
   remaining |-> info.remaining, limit |-> info.limit]

(* the error raised with the counts known before this response *)
rateLimitFailureBefore(headers, info) ==
  RateLimitError(retryAfterOf(headers), lastRateLimitInfo)

(* the error raised for a 429, from the response and the info just stored *)
rateLimitFailure(headers, info) == RateLimitError(retryAfterOf(headers), info)

(* `Retently API error (${response.status}): ${errorText}` *)
ApiError(status, errorText) ==
  [kind |-> "ApiError", status |-> status, body |-> errorText]

(* `Request timeout after ${timeout}ms: ${endpoint}` *)
TimeoutError(timeout, endpoint) ==
  [kind |-> "Timeout", timeout |-> timeout, endpoint |-> endpoint]

(* an error of fetch() or of the body reader, rethrown as it is *)
Rethrown(name) == [kind |-> name]

NoError == [kind |-> "none"]

(* response.ok *)
isOk(status) == status >= 200 /\ status <= 299

Resolved(value) == [ok |-> TRUE, value |-> value, error |-> NoError]
Rejected(error) == [ok |-> FALSE, value |-> 0, error |-> error]

(* the timer of a request is armed until the finally block clears it: while *)
(* fetch is awaited and while the text of an error response is awaited      *)
timerArmed(c) == c.req.phase \in {"fetch", "text"}

-----------------------------------------------------------------------------
(* RetentlyClient: the write operations *)

customerRegex == [prefix |-> "customer"]

(* the filter of createCustomers: the entries without email and those whose *)
(* lower-cased email was seen before are dropped                            *)
RECURSIVE dedupeFrom(_, _)
dedupeFrom(customers, seen) ==
  IF Len(customers) = 0 THEN <<>>
  ELSE LET c == Head(customers) IN
       IF ~truthy(c.email) THEN dedupeFrom(Tail(customers), seen)
       ELSE IF toLowerCase(c.email) \in seen THEN dedupeFrom(Tail(customers), seen)
       ELSE <<c>> \o dedupeFrom(Tail(customers), seen \cup {toLowerCase(c.email)})

(* the filter with seen.has(c.email): emails compared as they are written *)
dedupeCaseSensitive(customers) ==
  LET Keep(i) == /\ truthy(customers[i].email)
                 /\ \A j \in 1..(i - 1) : customers[j].email # customers[i].email
      F[i \in 0..Len(customers)] ==
        IF i = 0 THEN <<>>
        ELSE IF Keep(i) THEN Append(F[i - 1], customers[i]) ELSE F[i - 1]
  IN F[Len(customers)]

dedupe(customers) == dedupeFrom(customers, {})

(* a slice that runs one entry too far *)
chunkAtOneMore(deduped, i) ==
  SubSeq(deduped, i + 1, Min(i + ChunkSize + 1, Len(deduped)))

(* deduped.slice(i, i + chunkSize) *)
chunkAt(deduped, i) == SubSeq(deduped, i + 1, Min(i + ChunkSize, Len(deduped)))

(* every entry pushed as a success, whatever became of the request *)
chunkResultsAllSuccess(chunk, o) ==
  [k \in 1..Len(chunk) |-> [email |-> chunk[k].email, success |-> TRUE]]

(* the entries pushed to results for one chunk *)
chunkResults(chunk, o) ==
  [k \in 1..Len(chunk) |->
     IF o.ok THEN [email |-> chunk[k].email, success |-> TRUE]
     ELSE [email |-> chunk[k].email, success |-> FALSE, error |-> o.error]]

BulkResult(c) ==
  [write_operation |-> TRUE, action |-> "create-customers",
   success_count |-> c.successCount, error_count |-> c.errorCount,
   results |-> c.results]

DeleteResult == [write_operation |-> TRUE, action |-> "delete-customer", deleted |-> TRUE]
SurveyResult == [write_operation |-> TRUE, action |-> "send-survey", queued |-> TRUE]
TagsResult == [write_operation |-> TRUE, action |-> "add-tags", added |-> TRUE]
NoResult == [write_operation |-> FALSE]

(* the cache after createCustomers left its loop *)
createCustomersInvalidate(st, c) == invalidatePattern(st, customerRegex)

(* deleteCustomer invalidating with /^customers/: the list entries only *)
deleteCustomerInvalidateLists(st, o) ==
  IF o.ok THEN invalidatePattern(st, [prefix |-> "customers"]) ELSE st

(* the cache after the request of deleteCustomer settled *)
deleteCustomerInvalidate(st, o) ==
  IF o.ok THEN invalidatePattern(st, customerRegex) ELSE st

(* addFeedbackTags invalidating with /^feedback/: every feedback entry *)
addFeedbackTagsInvalidateAll(st, feedbackId, o) ==
  IF o.ok THEN invalidatePattern(st, [prefix |-> "feedback"]) ELSE st

(* the cache after the request of addFeedbackTags settled *)
addFeedbackTagsInvalidate(st, feedbackId, o) ==
  IF o.ok
  THEN invalidate(st, createCacheKey("feedback_detail", << <<"id", feedbackId>> >>))
  ELSE st

-----------------------------------------------------------------------------
(* Operations in flight *)

NoKey == plainKey("")

Call(op, arg, endpoint, method) ==
  [id |-> callCount + 1, op |-> op, arg |-> arg, customers |-> <<>>,
   cacheKey |-> NoKey, ttl |-> 0, store |-> FALSE,
   req |-> request(endpoint, method, <<>>),
   deduped |-> <<>>, i |-> 0, results |-> <<>>,
   successCount |-> 0, errorCount |-> 0]

ReadOps == {"listCustomers", "getCustomer", "listFeedback", "getFeedback",
            "getNpsScore", "getCsatScore", "getCesScore", "listCampaigns",
            "listCompanies"}

Returned(c, o, cached, result) ==
  [id |-> c.id, op |-> c.op, arg |-> c.arg, customers |-> c.customers,
   cacheKey |-> c.cacheKey,
   ok |-> o.ok, value |-> o.value, error |-> o.error,
   cached |-> cached, result |-> result, before |-> store,
   requests |-> httpCount]

NoneReturned ==
  [id |-> 0, op |-> "none", arg |-> "", customers |-> <<>>, cacheKey |-> NoKey,
   ok |-> TRUE, value |-> 0, error |-> NoError,
   cached |-> FALSE, result |-> NoResult, before |-> <<>>, requests |-> 0]

-----------------------------------------------------------------------------
(* What an operation does once its request has settled with outcome o: the *)
(* code after `await this.request(...)`, up to the next await or the return *)

(* getOrFetch storing whatever fetchFn ended with, a failure included *)
SettleReadStoresFailure(c, o) ==
  /\ store' = IF c.store
              THEN setEntry(store, c.cacheKey, o.value, c.ttl) ELSE store
  /\ pending' = pending \ {c}
  /\ done' = Returned(c, o, FALSE, NoResult)
  /\ httpCount' = httpCount

SettleRead(c, o) ==
  /\ store' = IF o.ok /\ c.store
              THEN setEntry(store, c.cacheKey, o.value, c.ttl) ELSE store
  /\ pending' = pending \ {c}
  /\ done' = Returned(c, o, FALSE, NoResult)
  /\ httpCount' = httpCount

SettleDelete(c, o) ==
  /\ store' = deleteCustomerInvalidate(store, o)
  /\ pending' = pending \ {c}
  /\ done' = Returned(c, o, FALSE, IF o.ok THEN DeleteResult ELSE NoResult)
  /\ httpCount' = httpCount

(* sendSurvey sending its request again when it was answered 429 *)
SettleSurveyAgain(c, o) ==
  IF ~o.ok /\ o.error.kind = "RateLimit"
  THEN /\ pending' = (pending \ {c}) \cup
                       {[c EXCEPT !.req = request("/survey", "POST", <<>>)]}
       /\ httpCount' = httpCount + 1
       /\ UNCHANGED <<store, done>>
  ELSE /\ store' = store
       /\ pending' = pending \ {c}
       /\ done' = Returned(c, o, FALSE, IF o.ok THEN SurveyResult ELSE NoResult)
       /\ httpCount' = httpCount

SettleSurvey(c, o) ==
  /\ store' = store
  /\ pending' = pending \ {c}
  /\ done' = Returned(c, o, FALSE, IF o.ok THEN SurveyResult ELSE NoResult)
  /\ httpCount' = httpCount

SettleTags(c, o) ==
  /\ store' = addFeedbackTagsInvalidate(store, c.arg, o)
  /\ pending' = pending \ {c}
  /\ done' = Returned(c, o, FALSE, IF o.ok THEN TagsResult ELSE NoResult)
  /\ httpCount' = httpCount

(* a loop that counts one success or one error per chunk, not per entry *)
afterChunkCountsChunks(c, o) ==
  LET chunk == chunkAt(c.deduped, c.i) IN
  [c EXCEPT !.results = @ \o chunkResults(chunk, o),
            !.successCount = IF o.ok THEN @ + 1 ELSE @,
            !.errorCount = IF o.ok THEN @ ELSE @ + 1,
            !.i = @ + ChunkSize]

(* one turn of the loop of createCustomers: the chunk's entries are pushed, *)
(* then the next chunk is sent, or the loop ends and the result is built   *)
afterChunk(c, o) ==
  LET chunk == chunkAt(c.deduped, c.i) IN
  [c EXCEPT !.results = @ \o chunkResults(chunk, o),
            !.successCount = IF o.ok THEN @ + Len(chunk) ELSE @,
            !.errorCount = IF o.ok THEN @ ELSE @ + Len(chunk),
            !.i = @ + ChunkSize]

(* the loop invalidating the customer entries after every chunk *)
SettleChunkInvalidatesEach(c, o) ==
  LET c1 == afterChunk(c, o) IN
  IF c1.i < Len(c1.deduped)
  THEN /\ pending' = (pending \ {c}) \cup
                       {[c1 EXCEPT !.req = request("/customers", "POST",
                                                    chunkAt(c1.deduped, c1.i))]}
       /\ httpCount' = httpCount + 1
       /\ store' = createCustomersInvalidate(store, c1)
       /\ UNCHANGED done
  ELSE /\ store' = createCustomersInvalidate(store, c1)
       /\ pending' = pending \ {c}
       /\ done' = Returned(c1, Resolved(0), FALSE, BulkResult(c1))
       /\ httpCount' = httpCount

SettleChunk(c, o) ==
  LET c1 == afterChunk(c, o) IN
  IF c1.i < Len(c1.deduped)
  THEN /\ pending' = (pending \ {c}) \cup
                       {[c1 EXCEPT !.req = request("/customers", "POST",
                                                    chunkAt(c1.deduped, c1.i))]}
       /\ httpCount' = httpCount + 1
       /\ UNCHANGED <<store, done>>
  ELSE /\ store' = createCustomersInvalidate(store, c1)
       /\ pending' = pending \ {c}
       /\ done' = Returned(c1, Resolved(0), FALSE, BulkResult(c1))
       /\ httpCount' = httpCount

Settle(c, o) ==
  /\ settled' = [rid |-> c.req.rid, id |-> c.id, op |-> c.op,
                 ok |-> o.ok, error |-> o.error]
  /\ CASE c.op \in ReadOps -> SettleRead(c, o)
       [] c.op = "deleteCustomer" -> SettleDelete(c, o)
       [] c.op = "sendSurvey" -> SettleSurvey(c, o)
       [] c.op = "addFeedbackTags" -> SettleTags(c, o)
       [] c.op = "createCustomers" -> SettleChunk(c, o)

-----------------------------------------------------------------------------
(* Invocations *)

(* cache.getOrFetch(plan.cacheKey, fetchFn, {ttl, bypassCache}) *)
getOrFetch(plan) ==
  LET c == [Call(plan.op, "", plan.endpoint, "GET") EXCEPT
              !.cacheKey = plan.cacheKey, !.ttl = plan.ttl,
              !.store = ~bypassed(plan)]
  IN
  /\ callCount' = callCount + 1
  /\ IF bypassed(plan)
     THEN /\ pending' = pending \cup {c}
          /\ httpCount' = httpCount + 1
          /\ UNCHANGED <<store, stats, done>>
     ELSE IF isFresh(plan.cacheKey)
     THEN /\ stats' = [stats EXCEPT !.hits = @ + 1]
          /\ done' = Returned([c EXCEPT !.req = NoRequest],
                              Resolved(store[plan.cacheKey].value), TRUE, NoResult)
          /\ UNCHANGED <<store, pending, httpCount>>
     ELSE /\ stats' = [stats EXCEPT !.misses = @ + 1]
          /\ store' = deleteEntry(store, plan.cacheKey)
          /\ pending' = pending \cup {c}
          /\ httpCount' = httpCount + 1
          /\ UNCHANGED done
  /\ UNCHANGED <<enabled, cacheDisabled, lastRateLimitInfo, now, ticks, lastResponse, settled>>

createCustomers(customers) ==
  LET deduped == dedupe(customers)
      c == [Call("createCustomers", "", "/customers", "POST") EXCEPT
              !.customers = customers, !.deduped = deduped,
              !.req.body = chunkAt(deduped, 0)]
  IN
  /\ callCount' = callCount + 1
  /\ IF 0 < Len(deduped)
     THEN /\ pending' = pending \cup {c}
          /\ httpCount' = httpCount + 1
          /\ UNCHANGED <<store, done>>
     ELSE /\ store' = createCustomersInvalidate(store, c)
          /\ done' = Returned([c EXCEPT !.req = NoRequest], Resolved(0), FALSE,
                              BulkResult(c))
          /\ UNCHANGED <<pending, httpCount>>
  /\ UNCHANGED <<enabled, stats, cacheDisabled, lastRateLimitInfo, now, ticks,
                 lastResponse, settled>>

Send(c) ==
  /\ callCount' = callCount + 1
  /\ pending' = pending \cup {c}
  /\ httpCount' = httpCount + 1
  /\ UNCHANGED <<store, enabled, stats, cacheDisabled, lastRateLimitInfo, now,
                 ticks, lastResponse, done, settled>>

deleteCustomer(email) == Send(Call("deleteCustomer", email, "/customers", "DELETE"))

sendSurvey(email) == Send(Call("sendSurvey", email, "/survey", "POST"))

addFeedbackTags(feedbackId) ==
  Send(Call("addFeedbackTags", feedbackId, "/response/tags", "POST"))

(* a switch that empties the store when it turns the cache off *)
disableCacheClears ==
  /\ cacheDisabled' = TRUE
  /\ enabled' = FALSE
  /\ store' = clear
  /\ UNCHANGED <<stats, lastRateLimitInfo, now, ticks, pending, callCount,
                 httpCount, lastResponse, done, settled>>

disableCache ==
  /\ cacheDisabled' = TRUE
  /\ enabled' = FALSE
  /\ UNCHANGED <<store, stats, lastRateLimitInfo, now, ticks, pending, callCount,
                 httpCount, lastResponse, done, settled>>

enableCache ==
  /\ cacheDisabled' = FALSE
  /\ enabled' = TRUE
  /\ UNCHANGED <<store, stats, lastRateLimitInfo, now, ticks, pending, callCount,
                 httpCount, lastResponse, done, settled>>

clearCache ==
  /\ store' = clear
  /\ UNCHANGED <<enabled, stats, cacheDisabled, lastRateLimitInfo, now, ticks,
                 pending, callCount, httpCount, lastResponse, settled, done>>

-----------------------------------------------------------------------------
(* What happens to a request in flight *)

(* fetch resolves with a response: its headers are recorded, then its status *)
(* decides                                                                   *)
Respond(c, status, headers) ==
  /\ c \in pending
  /\ c.req.phase = "fetch"
  /\ lastRateLimitInfo' = parseRateLimit(headers)
  /\ lastResponse' = [received |-> TRUE, rid |-> c.req.rid, status |-> status,
                      headers |-> headers]
  /\ IF status = 429
     THEN Settle(c, Rejected(rateLimitFailure(headers, lastRateLimitInfo')))
     ELSE /\ pending' = (pending \ {c}) \cup
                          {[c EXCEPT !.req.status = status,
                                     !.req.phase = IF isOk(status) THEN "json" ELSE "text"]}
          /\ UNCHANGED <<store, done, httpCount, settled>>
  /\ UNCHANGED <<enabled, stats, cacheDisabled, now, ticks, callCount>>

(* response.text() of an error response resolves *)
ReadText(c, errorText) ==
  /\ c \in pending
  /\ c.req.phase = "text"
  /\ Settle(c, Rejected(ApiError(c.req.status, errorText)))
  /\ UNCHANGED <<enabled, stats, cacheDisabled, lastRateLimitInfo, now, ticks,
                 callCount, lastResponse>>

(* response.json() of a 2xx response resolves; the timer is cleared already *)
ReadJson(c) ==
  /\ c \in pending
  /\ c.req.phase = "json"
  /\ Settle(c, Resolved(c.req.rid))
  /\ UNCHANGED <<enabled, stats, cacheDisabled, lastRateLimitInfo, now, ticks,
                 callCount, lastResponse>>

(* the timer fires: controller.abort() rejects what is awaited with AbortError *)
Abort(c) ==
  /\ c \in pending
  /\ timerArmed(c)
  /\ Settle(c, Rejected(TimeoutError(c.req.timeout, c.req.endpoint)))
  /\ UNCHANGED <<enabled, stats, cacheDisabled, lastRateLimitInfo, now, ticks,
                 callCount, lastResponse>>

(* fetch or the body reader rejects: the connection fails (TypeError), or the *)
(* body of a 2xx response is no JSON (SyntaxError)                            *)
Reject(c, name) ==
  /\ c \in pending
  /\ c.req.phase # "none"
  /\ name = "SyntaxError" => c.req.phase = "json"
  /\ Settle(c, Rejected(Rethrown(name)))
  /\ UNCHANGED <<enabled, stats, cacheDisabled, lastRateLimitInfo, now, ticks,
                 callCount, lastResponse>>

(* time passes; a timer (30000 ms) fires before a minute has passed *)
Tick(d) ==
  /\ \A c \in pending : ~timerArmed(c)
  /\ now' = now + d
  /\ ticks' = ticks + 1
  /\ UNCHANGED <<store, enabled, stats, cacheDisabled, lastRateLimitInfo, pending,
                 callCount, httpCount, lastResponse, done, settled>>

-----------------------------------------------------------------------------
(* Inputs *)

NoOptions == [page |-> undefined, perPage |-> undefined, email |-> undefined]

NoFeedbackOptions ==
  [page |-> undefined, perPage |-> undefined, campaignId |-> undefined,
   since |-> undefined, until |-> undefined, sort |-> undefined]

SinceValues == {"2024-01-15", ""}
CustomerIds == {"c1"}
FeedbackIds == {"f1", "f2"}

(* one call of every read operation, listFeedback with and without since *)
ReadPlans ==
  {listCustomers(NoOptions)}
    \cup {getCustomer(id) : id \in CustomerIds}
    \cup {listFeedback(NoFeedbackOptions)}
    \cup {listFeedback([NoFeedbackOptions EXCEPT !.since = s]) : s \in SinceValues}
    \cup {getFeedback("f1")}
    \cup {getNpsScore, getCsatScore, getCesScore}
    \cup {listCampaigns([limit |-> undefined])}
    \cup {listCompanies([page |-> undefined, perPage |-> undefined])}

(* and the same operations with other parameters *)
MoreReadPlans ==
  ReadPlans \cup {listCustomers([NoOptions EXCEPT !.email = "a@x"]), getFeedback("f2")}

Customer(email) == [email |-> email]

CustomerLists ==
  {<<>>, <<Customer("a@x")>>, <<Customer("a@x"), Customer("b@x"), Customer("c@x")>>}

(* the email property of an input entry: not set, empty, or an address *)
EmailValues == {undefined, "", "a@x", "A@X", "b@x", "c@x", "d@x"}

RECURSIVE ListsUpTo(_)
ListsUpTo(n) ==
  IF n = 0 THEN {<<>>}
  ELSE LET shorter == ListsUpTo(n - 1) IN
       shorter \cup {Append(l, Customer(e)) :
                       l \in {x \in shorter : Len(x) = n - 1}, e \in EmailValues}

BulkLists == ListsUpTo(MaxCustomers)

NoHeaders ==
  [remaining |-> HeaderAbsent, limit |-> HeaderAbsent, reset |-> HeaderAbsent,
   retryAfter |-> HeaderAbsent]

Statuses == {200, 429, 500}

HeaderSets ==
  {NoHeaders,
   [remaining |-> "0", limit |-> "150", reset |-> "9", retryAfter |-> "30"],
   [NoHeaders EXCEPT !.remaining = "42"],
   [NoHeaders EXCEPT !.limit = "150"],
   [NoHeaders EXCEPT !.reset = "1700000000", !.retryAfter = ""],
   [NoHeaders EXCEPT !.remaining = "", !.retryAfter = "5"]}

ErrorTexts == {"oops"}

TickSteps == {TTL_MINUTE, TTL_HOUR}

-------------------------------------------------------------------------------------------------------------------------------------------------
(* The state after construction *)

Init ==
  /\ store = <<>>
  /\ enabled = TRUE
  /\ stats = [hits |-> 0, misses |-> 0]
  /\ cacheDisabled = FALSE
  /\ lastRateLimitInfo = [remaining |-> null, limit |-> null, reset |-> null]
  /\ now = 0
  /\ ticks = 0
  /\ pending = {}
  /\ callCount = 0
  /\ httpCount = 0
  /\ lastResponse = [received |-> FALSE, rid |-> 0, status |-> 0, headers |-> NoHeaders]
  /\ settled = [rid |-> 0, id |-> 0, op |-> "none", ok |-> TRUE, error |-> NoError]
  /\ done = NoneReturned

(* a caller that awaits each operation before it invokes the next *)
Sequential == callCount < MaxCalls /\ pending = {}

(* a caller that invokes one operation *)
FirstCall == callCount = 0

-----------------------------------------------------------------------------
(* Spec: the read operations under the clock and the cache switch *)

Next ==
  \/ Sequential /\ \E plan \in ReadPlans : getOrFetch(plan)
  \/ disableCache
  \/ enableCache
  \/ \E c \in pending, status \in {200, 500} : Respond(c, status, NoHeaders)
  \/ \E c \in pending, errorText \in ErrorTexts : ReadText(c, errorText)
  \/ \E c \in pending : ReadJson(c)
  \/ ticks < MaxTicks /\ \E d \in TickSteps : Tick(d)

Spec == Init /\ [][Next]_vars

(* SpecWrite: reads and writes, every way a request can end *)

NextWrite ==
  \/ Sequential /\ \E plan \in MoreReadPlans : getOrFetch(plan)
  \/ Sequential /\ \E customers \in CustomerLists : createCustomers(customers)
  \/ Sequential /\ deleteCustomer("a@x")
  \/ Sequential /\ sendSurvey("a@x")
  \/ Sequential /\ \E id \in FeedbackIds : addFeedbackTags(id)
  \/ \E c \in pending, status \in Statuses : Respond(c, status, NoHeaders)
  \/ \E c \in pending, errorText \in ErrorTexts : ReadText(c, errorText)
  \/ \E c \in pending : ReadJson(c)
  \/ \E c \in pending : Abort(c)
  \/ \E c \in pending, name \in {"TypeError", "SyntaxError"} : Reject(c, name)

SpecWrite == Init /\ [][NextWrite]_vars

(* SpecBulk: one createCustomers call on any input list *)

NextBulk ==
  \/ FirstCall /\ \E customers \in BulkLists : createCustomers(customers)
  \/ \E c \in pending, status \in Statuses : Respond(c, status, NoHeaders)
  \/ \E c \in pending, errorText \in ErrorTexts : ReadText(c, errorText)
  \/ \E c \in pending : ReadJson(c)
  \/ \E c \in pending : Abort(c)
  \/ \E c \in pending, name \in {"TypeError", "SyntaxError"} : Reject(c, name)

SpecBulk == Init /\ [][NextBulk]_vars

(* SpecHttp: the request executor under every combination of headers *)

NextHttp ==
  \/ Sequential /\ getOrFetch(getNpsScore)
  \/ Sequential /\ deleteCustomer("a@x")
  \/ Sequential /\ createCustomers(<<Customer("a@x"), Customer("b@x"), Customer("c@x")>>)
  \/ \E c \in pending, status \in Statuses, headers \in HeaderSets :
       Respond(c, status, headers)
  \/ \E c \in pending, errorText \in ErrorTexts : ReadText(c, errorText)
  \/ \E c \in pending : ReadJson(c)
  \/ \E c \in pending : Abort(c)
  \/ \E c \in pending, name \in {"TypeError", "SyntaxError"} : Reject(c, name)

SpecHttp == Init /\ [][NextHttp]_vars

(* SpecRace: callers that do not await: customer reads and writes in flight *)
(* together                                                                *)

CanStart == callCount < MaxCalls /\ Cardinality(pending) < MaxInFlight

RacePlans == {getCustomer("c1"), listCustomers(NoOptions), getNpsScore}

NextRace ==
  \/ CanStart /\ \E plan \in RacePlans : getOrFetch(plan)
  \/ CanStart /\ deleteCustomer("a@x")
  \/ CanStart /\ createCustomers(<<Customer("a@x")>>)
  \/ \E c \in pending, status \in {200, 500} : Respond(c, status, NoHeaders)
  \/ \E c \in pending, errorText \in ErrorTexts : ReadText(c, errorText)
  \/ \E c \in pending : ReadJson(c)

SpecRace == Init /\ [][NextRace]_vars

-----------------------------------------------------------------------------
(* Properties *)

(* the step invokes an operation *)
Invoked == callCount' = callCount + 1

(* the operation the step invokes: in flight, or returned at once *)
NewCall ==
  IF \E c \in pending' : c.id = callCount'
  THEN LET c == CHOOSE x \in pending' : x.id = callCount' IN
       [op |-> c.op, cacheKey |-> c.cacheKey, arg |-> c.arg]
  ELSE [op |-> done'.op, cacheKey |-> done'.cacheKey, arg |-> done'.arg]

(* the step makes an operation return or throw *)
Finished == done'.id # done.id

(* the key carries a since parameter *)
HasSince(key) == \E p \in key.params : p[1] = "since"

(* the TTL the policy table gives to the operation that stores under a name *)
PolicyTTL(name) ==
  CASE name = "customers" -> 5
    [] name = "customer" -> 1
    [] name = "feedback" -> 2
    [] name = "feedback_detail" -> 1
    [] name \in {"nps_score", "csat_score", "ces_score"} -> 60
    [] name \in {"campaigns", "companies"} -> 15

(* C1: with caching enabled, a cached read whose key holds an entry that   *)
(* has not expired issues no HTTP request and returns the stored value; a  *)
(* read whose entry has expired (now >= expiresAt) issues a new request;   *)
(* and every entry is stored to expire one policy TTL after its store      *)
(* (getCustomer 1 minute, scores 1 hour), so two calls less than the TTL   *)
(* apart issue one request.                                                *)
C1_OneRequestPerTtlWindow ==
  [][ /\ (Invoked /\ NewCall.op \in ReadOps /\ ~HasSince(NewCall.cacheKey)
            /\ ~cacheDisabled /\ enabled /\ NewCall.cacheKey \in DOMAIN store)
         => LET k == NewCall.cacheKey IN
            IF now < store[k].expiresAt
            THEN /\ httpCount' = httpCount
                 /\ done'.id = callCount' /\ done'.ok
                 /\ done'.value = store[k].value
            ELSE /\ httpCount' = httpCount + 1
                 /\ done' = done
      /\ \A k \in DOMAIN store' :
           (k \notin DOMAIN store \/ store'[k] # store[k])
           => /\ store'[k].expiresAt = now + PolicyTTL(k.name)
              /\ store'[k].value = settled'.rid
    ]_vars

(* getCustomer was fetched, served from the cache, and fetched again once *)
(* its minute had passed                                                  *)
C1_Witness ==
  /\ callCount = 3 /\ httpCount = 2
  /\ stats = [hits |-> 1, misses |-> 2]
  /\ done.op = "getCustomer" /\ done.ok /\ ~done.cached /\ done.value = 2
  /\ DOMAIN store = {getCustomer("c1").cacheKey}
  /\ now >= TTL_MINUTE

(* the names of the keys of the operations that do not read customers *)
OtherNames ==
  {"feedback", "feedback_detail", "nps_score", "csat_score", "ces_score",
   "campaigns", "companies"}

CustomerNames == {"customers", "customer"}

CustomerWrites == {"deleteCustomer", "createCustomers"}

(* C2: when deleteCustomer or createCustomers returns successfully the     *)
(* cache holds no entry whose key starts with "customer" (none stored by   *)
(* listCustomers or getCustomer), every entry of the other read operations *)
(* is unchanged, and a listCustomers/getCustomer call made next issues an  *)
(* HTTP request.                                                           *)
C2_CustomerWriteInvalidates ==
  [][ /\ (Finished /\ done'.op \in CustomerWrites /\ done'.ok)
         => /\ \A k \in DOMAIN store' :
                 ~StartsWith(k.name, "customer") /\ k.name \notin CustomerNames
            /\ \A k \in DOMAIN store :
                 k.name \in OtherNames => k \in DOMAIN store' /\ store'[k] = store[k]
      /\ (Invoked /\ NewCall.op \in {"listCustomers", "getCustomer"}
            /\ done.op \in CustomerWrites /\ done.ok /\ done.id = callCount)
         => httpCount' = httpCount + 1
    ]_vars

(* deleteCustomer has just returned; the cache held a customer entry and an *)
(* entry of another operation, and the second one is still there            *)
C2_Witness ==
  /\ done.op = "deleteCustomer" /\ done.ok /\ done.id = callCount /\ pending = {}
  /\ \E k \in DOMAIN done.before : k.name \in CustomerNames
  /\ \E k \in DOMAIN done.before : k.name \in OtherNames /\ k \in DOMAIN store

(* the write made no change to the remote data: its request failed, or no *)
(* chunk of it succeeded                                                  *)
WriteFailed(d) ==
  \/ d.op \in {"deleteCustomer", "addFeedbackTags"} /\ ~d.ok
  \/ d.op = "createCustomers" /\ d.result.success_count = 0

(* C3: a write whose request failed (deleteCustomer, addFeedbackTags), or  *)
(* a createCustomers call none of whose chunks succeeded, leaves the set   *)
(* of cache entries as it was.                                             *)
C3_FailedWriteKeepsCache ==
  [][ (Finished /\ WriteFailed(done')) => store' = store ]_vars

(* C4: a listFeedback call whose options carry a since value issues an     *)
(* HTTP request, returns that response and never a stored value, and       *)
(* stores nothing.                                                         *)
C4_SinceNeverCached ==
  [][ /\ (Invoked /\ NewCall.op = "listFeedback" /\ HasSince(NewCall.cacheKey))
         => httpCount' = httpCount + 1 /\ done' = done /\ store' = store
      /\ (Finished /\ done'.op = "listFeedback" /\ HasSince(done'.cacheKey))
         => /\ store' = store
            /\ ~done'.cached
            /\ done'.ok => done'.value = settled'.rid
    ]_vars

(* the same for the since values that are not the empty string *)
C4_NonEmptySinceNeverCached ==
  [][ /\ (Invoked /\ NewCall.op = "listFeedback"
            /\ \E p \in NewCall.cacheKey.params : p[1] = "since" /\ p[2] # "")
         => httpCount' = httpCount + 1 /\ done' = done /\ store' = store
      /\ (Finished /\ done'.op = "listFeedback"
            /\ \E p \in done'.cacheKey.params : p[1] = "since" /\ p[2] # "")
         => /\ store' = store
            /\ ~done'.cached
            /\ done'.ok => done'.value = settled'.rid
    ]_vars

(* C5: while caching is disabled, a call of a read operation issues an     *)
(* HTTP request and is set to store nothing, whatever the cache holds; and *)
(* such a call returns the response of its own request and leaves every    *)
(* cache entry as it was.                                                  *)
C5_DisabledAlwaysFetches ==
  [][ /\ (Invoked /\ NewCall.op \in ReadOps /\ cacheDisabled)
         => /\ httpCount' = httpCount + 1
            /\ store' = store
            /\ done' = done
            /\ \E c \in pending' : c.id = callCount' /\ ~c.store
      /\ \A c \in pending :
           (Finished /\ done'.id = c.id /\ c.op \in ReadOps /\ ~c.store)
           => /\ store' = store
              /\ ~done'.cached
              /\ settled'.rid = c.req.rid
              /\ done'.ok = settled'.ok
              /\ done'.ok => done'.value = c.req.rid
    ]_vars

(* with caching disabled a read has just returned the response of a new    *)
(* request although a fresh entry for its key is stored, and the entry     *)
(* is as it was                                                            *)
C5_Witness ==
  /\ cacheDisabled /\ done.id = callCount /\ pending = {}
  /\ done.op \in ReadOps /\ done.ok /\ ~done.cached
  /\ done.cacheKey \in DOMAIN store
  /\ now < store[done.cacheKey].expiresAt
  /\ store[done.cacheKey].value # done.value
  /\ done.before = store

-----------------------------------------------------------------------------
(* createCustomers *)

(* the positions of the input entries that are the first to carry their *)
(* email, compared in lower case                                        *)
FirstOccurrenceAt(customers, i) ==
  /\ truthy(customers[i].email)
  /\ \A j \in 1..(i - 1) :
       truthy(customers[j].email)
       => toLowerCase(customers[j].email) # toLowerCase(customers[i].email)

(* those entries, in input order *)
FirstOccurrences(customers) ==
  LET F[i \in 0..Len(customers)] ==
        IF i = 0 THEN <<>>
        ELSE IF FirstOccurrenceAt(customers, i)
             THEN Append(F[i - 1], customers[i]) ELSE F[i - 1]
  IN F[Len(customers)]

CeilDiv(n, d) == (n + d - 1) \div d

(* the request of call c settles in this step *)
ChunkSettled(c) ==
  /\ c.op = "createCustomers"
  /\ settled'.rid = c.req.rid
  /\ settled.rid # c.req.rid

(* results and counts of call c after the step *)
BulkAfter(c) ==
  IF done'.id = c.id
  THEN [results |-> done'.result.results,
        successCount |-> done'.result.success_count,
        errorCount |-> done'.result.error_count]
  ELSE LET x == CHOOSE y \in pending' : y.id = c.id IN
       [results |-> x.results, successCount |-> x.successCount,
        errorCount |-> x.errorCount]

(* C6: createCustomers returns normally whatever became of its requests.   *)
(* When the request of a chunk settles, one entry per customer of the      *)
(* chunk is added to the results: success:true if the request succeeded,   *)
(* success:false with the request's error if it failed; the entries of the *)
(* chunks before stay as they were; and if customers remain, the next      *)
(* chunk is submitted whether or not this one failed.                      *)
C6_ChunksFailAlone ==
  [][ /\ (Finished /\ done'.op = "createCustomers")
         => done'.ok /\ done'.result.write_operation
      /\ \A c \in pending :
           ChunkSettled(c)
           => LET a == BulkAfter(c)
                  body == c.req.body
                  before == Len(c.results)
              IN
              /\ Len(a.results) = before + Len(body)
              /\ SubSeq(a.results, 1, before) = c.results
              /\ \A k \in 1..Len(body) :
                   IF settled'.ok
                   THEN a.results[before + k] =
                          [email |-> body[k].email, success |-> TRUE]
                   ELSE a.results[before + k] =
                          [email |-> body[k].email, success |-> FALSE,
                           error |-> settled'.error]
              /\ IF before + Len(body) < Len(FirstOccurrences(c.customers))
                 THEN /\ httpCount' = httpCount + 1
                      /\ \E x \in pending' :
                           x.id = c.id /\ x.req.rid = httpCount'
                             /\ x.req.phase = "fetch"
                 ELSE /\ httpCount' = httpCount
                      /\ done'.id = c.id
    ]_vars

(* the first chunk failed, the second was submitted and succeeded *)
C6_Witness ==
  /\ done.op = "createCustomers" /\ done.ok
  /\ Len(done.result.results) = ChunkSize + 1
  /\ \A k \in 1..ChunkSize :
       ~done.result.results[k].success
         /\ done.result.results[k].error.kind = "Timeout"
  /\ done.result.results[ChunkSize + 1].success

(* the emails of a list of customers or of results *)
Emails(list) == [k \in 1..Len(list) |-> list[k].email]

(* C7: the customers createCustomers submits are the first occurrence of   *)
(* each distinct lower-cased email, in input order: no two of them have    *)
(* emails equal ignoring case, and every email of the input is carried,    *)
(* ignoring case, by exactly one of them, the earliest entry with it.      *)
C7_FirstOccurrenceKept ==
  /\ \A c \in pending :
       c.op = "createCustomers"
       => /\ c.deduped = FirstOccurrences(c.customers)
          /\ \A i, j \in 1..Len(c.deduped) :
               i # j => toLowerCase(c.deduped[i].email) # toLowerCase(c.deduped[j].email)
          /\ \A i \in 1..Len(c.customers) :
               truthy(c.customers[i].email)
               => LET same == {k \in 1..Len(c.deduped) :
                                 toLowerCase(c.deduped[k].email)
                                   = toLowerCase(c.customers[i].email)}
                      first == CHOOSE j \in 1..i :
                                 /\ truthy(c.customers[j].email)
                                 /\ toLowerCase(c.customers[j].email)
                                      = toLowerCase(c.customers[i].email)
                                 /\ \A l \in 1..(j - 1) :
                                      ~truthy(c.customers[l].email)
                                      \/ toLowerCase(c.customers[l].email)
                                           # toLowerCase(c.customers[i].email)
                  IN /\ Cardinality(same) = 1
                     /\ \A k \in same : c.deduped[k] = c.customers[first]
  /\ done.op = "createCustomers"
     => Emails(done.result.results) = Emails(FirstOccurrences(done.customers))

(* the list a@x, A@X, b@x is submitted as a@x, b@x *)
C7_Witness ==
  \E c \in pending :
    /\ c.customers = <<Customer("a@x"), Customer("A@X"), Customer("b@x")>>
    /\ c.deduped = <<Customer("a@x"), Customer("b@x")>>
    /\ c.req.body = c.deduped

(* the requests of a createCustomers call are the consecutive slices of   *)
(* the de-duplicated list: the k-th holds the entries (k-1)*C+1 .. k*C,   *)
(* the last one what remains                                              *)
ChunkIsSlice(c) ==
  LET list == FirstOccurrences(c.customers)
      n == Len(list)
      k == c.req.rid
  IN
  /\ c.req.method = "POST"
  /\ k <= CeilDiv(n, ChunkSize)
  /\ c.req.body = [j \in 1..Len(c.req.body) |-> list[(k - 1) * ChunkSize + j]]
  /\ Len(c.req.body) =
       IF k < CeilDiv(n, ChunkSize) THEN ChunkSize
       ELSE n - ChunkSize * (CeilDiv(n, ChunkSize) - 1)

(* C8: for n de-duplicated customers and chunk size C, createCustomers     *)
(* issues ceil(n/C) POST requests (none when n = 0), each a consecutive    *)
(* slice of C entries, the last one of the remaining n - C*(ceil(n/C)-1);  *)
(* success_count grows by the size of each chunk whose request succeeded   *)
(* and error_count by the size of each chunk whose request failed.         *)
C8_ChunkedRequests ==
  [][ /\ \A c \in pending' : c.op = "createCustomers" => ChunkIsSlice(c)
      /\ (Finished /\ done'.op = "createCustomers")
         => httpCount' = CeilDiv(Len(FirstOccurrences(done'.customers)), ChunkSize)
      /\ (Invoked /\ NewCall.op = "createCustomers" /\ done'.id = callCount')
         => /\ httpCount' = httpCount
            /\ done'.result.success_count = 0 /\ done'.result.error_count = 0
      /\ \A c \in pending :
           ChunkSettled(c)
           => LET a == BulkAfter(c) IN
              /\ a.successCount =
                   c.successCount + (IF settled'.ok THEN Len(c.req.body) ELSE 0)
              /\ a.errorCount =
                   c.errorCount + (IF settled'.ok THEN 0 ELSE Len(c.req.body))
    ]_vars

(* one chunk more than fits in one request: two requests, the second one *)
(* failed, a full chunk of successes and the rest failures with the error *)
C8_Witness ==
  /\ done.op = "createCustomers" /\ httpCount = 2
  /\ done.result.success_count = ChunkSize
  /\ done.result.error_count = 1
  /\ Len(done.result.results) = ChunkSize + 1
  /\ done.result.results[ChunkSize + 1].error.kind = "ApiError"

-----------------------------------------------------------------------------
(* Rate limits *)

(* a response carries no value for a header: the header is absent, or empty *)
Missing(h) == h = HeaderAbsent \/ h = ""

(* v is what the header h of a response says: null when the header is *)
(* missing, else the number h writes in decimal                       *)
SaysHeader(v, h) ==
  IF Missing(h) THEN v = null ELSE v >= 0 /\ ToString(v) = h

(* the info says what the headers of the response say *)
InfoOf(info, headers) ==
  /\ SaysHeader(info.remaining, headers.remaining)
  /\ SaysHeader(info.limit, headers.limit)
  /\ SaysHeader(info.reset, headers.reset)

(* the step receives a response *)
Received == lastResponse'.rid # lastResponse.rid

(* C9: getRateLimitInfo() is always what the headers of the most recently  *)
(* received response say, whatever its status; a field whose header that   *)
(* response lacks is null; all three fields are null while no response has *)
(* been received; and a step that receives no response (a cache hit, a     *)
(* timeout, a network failure, a body read) leaves it unchanged.           *)
C9_InfoOfLastResponse ==
  /\ [](IF lastResponse.received
        THEN InfoOf(lastRateLimitInfo, lastResponse.headers)
        ELSE lastRateLimitInfo = [remaining |-> null, limit |-> null, reset |-> null])
  /\ [][ /\ ~Received => lastRateLimitInfo' = lastRateLimitInfo
         /\ Received
            => /\ \E c \in pending :
                    c.req.rid = lastResponse'.rid /\ c.req.phase = "fetch"
               /\ lastResponse'.received
               /\ lastResponse'.status \in Statuses
    ]_vars

(* a 429 said remaining 0 of 150; the next response, a 200 without the *)
(* headers, leaves every field null                                    *)
C9_Witness ==
  /\ done.error.kind = "RateLimit"
  /\ done.error.remaining = 0 /\ done.error.limit = 150
  /\ lastResponse.received /\ lastResponse.rid > settled.rid
  /\ lastResponse.status = 200
  /\ lastResponse.headers = NoHeaders
  /\ lastRateLimitInfo = [remaining |-> null, limit |-> null, reset |-> null]

-----------------------------------------------------------------------------
(* Timeouts *)

(* the milliseconds since the request of c was sent; the clock counts minutes *)
Elapsed(c) == 60000 * (now - c.req.sentAt)

(* the request of c is not completed: no response yet, or its body not read *)
Incomplete(c) == c.req.phase \in {"fetch", "text", "json"}

(* C11: a request that is not completed (response received and body read) *)
(* when its timeout elapses is aborted: no request is pending past its    *)
(* timeout, and none that exceeded its timeout returns a value.           *)
C11_NoRequestPastTimeout ==
  \A c \in pending : Incomplete(c) => Elapsed(c) < c.req.timeout

(* while fetch or the text of an error response is awaited the timer is *)
(* armed: such a request is never pending past its timeout              *)
C11_ArmedNeverPastTimeout ==
  \A c \in pending : timerArmed(c) => Elapsed(c) < c.req.timeout

-----------------------------------------------------------------------------
(* Retries *)

SingleWrites == {"deleteCustomer", "sendSurvey", "addFeedbackTags"}

(* the request of call c settles in this step, with any outcome *)
RequestSettled(c) == settled'.rid = c.req.rid /\ settled.rid # c.req.rid

(* the customers of the createCustomers call the step invokes *)
NewCustomers ==
  IF done'.id = callCount' THEN done'.customers
  ELSE (CHOOSE x \in pending' : x.id = callCount').customers

-----------------------------------------------------------------------------
(* Failed reads *)

(* C13: when the request behind a read operation fails (timeout, 429,     *)
(* other non-2xx, network failure), the operation fails with that same    *)
(* error and the cache is left as it was, with no fresh entry for the     *)
(* key; and when the next call after a failed read has the same key, it   *)
(* issues a new request.                                                  *)
C13_FailuresNotCached ==
  [][ /\ \A c \in pending :
           (RequestSettled(c) /\ c.op \in ReadOps /\ ~settled'.ok)
           => /\ done'.id = c.id /\ ~done'.ok
              /\ done'.error = settled'.error
              /\ store' = store
              /\ ~(c.cacheKey \in DOMAIN store'
                     /\ now' < store'[c.cacheKey].expiresAt)
      /\ (Invoked /\ NewCall.op \in ReadOps
            /\ done.op \in ReadOps /\ ~done.ok
            /\ done.id = callCount
            /\ NewCall.cacheKey = done.cacheKey)
         => /\ httpCount' = httpCount + 1
            /\ done' = done
            /\ \E x \in pending' :
                 x.id = callCount' /\ x.req.rid = httpCount' /\ x.req.phase = "fetch"
    ]_vars

(* getFeedback timed out; the same call made again has a request in flight *)
C13_Witness ==
  /\ done.op = "getFeedback" /\ ~done.ok
  /\ done.error.kind = "Timeout"
  /\ done.cacheKey \notin DOMAIN store
  /\ \E c \in pending :
       /\ c.id = done.id + 1
       /\ c.cacheKey = done.cacheKey
       /\ c.req.phase = "fetch"

-----------------------------------------------------------------------------
(* The cache switch *)

(* every entry of the store is still there after the step, as it was *)
EntriesKept == \A k \in DOMAIN store : k \in DOMAIN store' /\ store'[k] = store[k]

(* C14: disableCache() followed later by enableCache() loses no entry.    *)
(* From the step that disables the cache to the step that enables it      *)
(* again, every step - the two switches and every read invoked or         *)
(* resolved in between - keeps each stored entry with its value and its   *)
(* expiry; and a read invoked with the cache enabled whose entry is fresh *)
(* returns the stored value without a request.                            *)
C14_DisableEnableKeepsEntries ==
  [][ /\ (cacheDisabled \/ cacheDisabled' \/ ~enabled \/ ~enabled') => EntriesKept
      /\ (cacheDisabled' # cacheDisabled) => store' = store
      /\ (Invoked /\ NewCall.op \in ReadOps /\ ~cacheDisabled /\ enabled
            /\ ~HasSince(NewCall.cacheKey)
            /\ NewCall.cacheKey \in DOMAIN store
            /\ now < store[NewCall.cacheKey].expiresAt)
         => /\ httpCount' = httpCount
            /\ done'.id = callCount' /\ done'.ok /\ done'.cached
            /\ done'.value = store[NewCall.cacheKey].value
    ]_vars

(* getCustomer is fetched and stored, fetched again while the cache is off, *)
(* and after enableCache() served from the entry of the first request       *)
C14_Witness ==
  /\ done.id = 3 /\ done.op = "getCustomer"
  /\ done.cached /\ done.value = 1
  /\ httpCount = 2
  /\ stats = [hits |-> 1, misses |-> 1]
  /\ enabled /\ ~cacheDisabled

-----------------------------------------------------------------------------
(* write_operation *)

(* C15: a result carrying write_operation: true means the call modified   *)
(* remote data: at least one write request of the call was answered with  *)
(* a 2xx response (for createCustomers, at least one chunk succeeded).    *)
C15_WriteOperationMeansModified ==
  done.result.write_operation
  => IF done.op = "createCustomers"
     THEN done.result.success_count > 0
     ELSE done.ok /\ done.value > 0

(* deleteCustomer, sendSurvey and addFeedbackTags return their result only *)
(* after their request succeeded: the value is the one of its response     *)
C15_SingleWritesModified ==
  (done.result.write_operation /\ done.op \in SingleWrites)
  => done.ok /\ done.value > 0

-----------------------------------------------------------------------------
(* Reads in flight together *)

(* C16: a cached read started while another call with the same key is in  *)
(* flight and nothing fresh is stored for the key records a miss and      *)
(* issues its own request, so that two requests are in flight for the     *)
(* key; and each read that resolves stores its own result, whatever entry *)
(* the key has by then, so the entry left is the one of the request that  *)
(* resolved last.                                                         *)
C16_NoCoalescing ==
  [][ /\ (Invoked /\ NewCall.op \in ReadOps /\ enabled /\ ~cacheDisabled
            /\ ~HasSince(NewCall.cacheKey)
            /\ ~(NewCall.cacheKey \in DOMAIN store
                   /\ now < store[NewCall.cacheKey].expiresAt)
            /\ \E c \in pending : c.cacheKey = NewCall.cacheKey)
         => /\ stats'.misses = stats.misses + 1
            /\ stats'.hits = stats.hits
            /\ httpCount' = httpCount + 1
            /\ \E x, y \in pending' :
                 /\ x.id # y.id /\ x.cacheKey = y.cacheKey
                 /\ y.id = callCount' /\ y.req.rid = httpCount'
                 /\ x.req.rid # y.req.rid
      /\ \A c \in pending :
           (RequestSettled(c) /\ c.op \in ReadOps /\ c.store /\ settled'.ok)
           => /\ done'.id = c.id /\ done'.value = c.req.rid
              /\ c.cacheKey \in DOMAIN store'
              /\ store'[c.cacheKey] =
                   [value |-> c.req.rid, expiresAt |-> now + PolicyTTL(c.cacheKey.name)]
              /\ \A k \in DOMAIN store' \ {c.cacheKey} :
                   k \in DOMAIN store /\ store'[k] = store[k]
    ]_vars

(* the second of two getCustomer calls has resolved and stored its result; *)
(* the first, started before it, has its response and will store its own   *)
C16_Witness ==
  /\ done.id = 2 /\ done.op = "getCustomer" /\ done.ok
  /\ stats = [hits |-> 0, misses |-> 2]
  /\ done.cacheKey \in DOMAIN store /\ store[done.cacheKey].value = 2
  /\ \E c \in pending :
       /\ c.id = 1 /\ c.cacheKey = done.cacheKey
       /\ c.req.rid = 1 /\ c.req.phase = "json"

-----------------------------------------------------------------------------
(* Feedback tags and surveys *)

(* the key of the getFeedback entry of a feedback id *)
FeedbackKey(id) == [name |-> "feedback_detail", params |-> {<<"id", id>>}]

(* C17: when addFeedbackTags(id, tags) returns successfully, the           *)
(* getFeedback entry of that id is absent and every other entry is as it   *)
(* was (no entry is added); a getFeedback(id) made next issues a request;  *)
(* and no step of sendSurvey, invocation or return, changes the cache.     *)
C17_TagsInvalidateOneEntry ==
  [][ /\ \A c \in pending :
           (RequestSettled(c) /\ c.op = "addFeedbackTags" /\ settled'.ok)
           => /\ done'.id = c.id /\ done'.ok /\ done'.result.write_operation
              /\ FeedbackKey(c.arg) \notin DOMAIN store'
              /\ DOMAIN store' = DOMAIN store \ {FeedbackKey(c.arg)}
              /\ \A k \in DOMAIN store' : store'[k] = store[k]
      /\ (Invoked /\ NewCall.op = "getFeedback"
            /\ done.op = "addFeedbackTags" /\ done.ok /\ done.id = callCount
            /\ NewCall.cacheKey = FeedbackKey(done.arg))
         => httpCount' = httpCount + 1 /\ done' = done
      /\ (Invoked /\ NewCall.op \in {"sendSurvey", "addFeedbackTags"})
         => store' = store
      /\ \A c \in pending :
           (RequestSettled(c) /\ c.op = "sendSurvey") => store' = store
    ]_vars

(* the entries of f1 and f2 were stored; addFeedbackTags(f1) removed the *)
(* one of f1 and left the one of f2                                      *)
C17_Witness ==
  /\ done.op = "addFeedbackTags" /\ done.ok /\ done.arg = "f1"
  /\ FeedbackKey("f1") \in DOMAIN done.before
  /\ FeedbackKey("f1") \notin DOMAIN store
  /\ FeedbackKey("f2") \in DOMAIN store
  /\ store[FeedbackKey("f2")] = done.before[FeedbackKey("f2")]

-----------------------------------------------------------------------------
(* The kinds of failure *)

(* the status of the response the request of c has had when it settles in *)
(* this step, 0 if it has had none                                        *)
StatusAtSettle(c) ==
  IF c.req.phase = "fetch"
  THEN (IF Received /\ lastResponse'.rid = c.req.rid THEN lastResponse'.status ELSE 0)
  ELSE c.req.status

(* C18: a request that fails fails with a Timeout, a RateLimited (status   *)
(* 429) or a RemoteError (another non-2xx status, carrying the status and  *)
(* the body text), and with nothing else; a request answered 2xx does not  *)
(* fail.                                                                   *)
C18_ThreeKindsOfFailure ==
  [][ \A c \in pending :
        (RequestSettled(c) /\ ~settled'.ok)
        => /\ settled'.error.kind \in {"Timeout", "RateLimit", "ApiError"}
           /\ settled'.error.kind = "RateLimit" <=> StatusAtSettle(c) = 429
           /\ settled'.error.kind = "ApiError"
              => /\ StatusAtSettle(c) # 0 /\ ~isOk(StatusAtSettle(c))
                 /\ settled'.error.status = StatusAtSettle(c)
                 /\ settled'.error.body \in ErrorTexts
           /\ ~isOk(StatusAtSettle(c))
    ]_vars

(* what the executor does raise: the three kinds, and the error of fetch  *)
(* or of the body reader as it is (a network failure, a body that is no   *)
(* JSON); a 2xx response fails with nothing but such an error             *)
C18_KindsRaised ==
  [][ \A c \in pending :
        (RequestSettled(c) /\ ~settled'.ok)
        => /\ settled'.error.kind \in
                {"Timeout", "RateLimit", "ApiError", "TypeError", "SyntaxError"}
           /\ settled'.error.kind = "RateLimit" <=> StatusAtSettle(c) = 429
           /\ settled'.error.kind = "ApiError"
              => /\ StatusAtSettle(c) # 0 /\ ~isOk(StatusAtSettle(c))
                 /\ settled'.error.status = StatusAtSettle(c)
           /\ isOk(StatusAtSettle(c))
              => settled'.error.kind \in {"TypeError", "SyntaxError"}
    ]_vars

-----------------------------------------------------------------------------
(* The loop of createCustomers *)

(* C19: a createCustomers call has at most one request in flight; a       *)
(* request of the call is issued either by the invocation, for the first  *)
(* chunk, or in the step in which the request before it succeeds or       *)
(* fails, for the chunk that follows in the de-duplicated list; and the   *)
(* cache is left alone until the last chunk has completed, when the       *)
(* customer entries are removed.                                          *)
C19_ChunksInSequence ==
  [][ /\ \A x, y \in pending' : x.id = y.id => x = y
      /\ \A x \in pending' :
           (x.op = "createCustomers" /\ \A c \in pending : c.req.rid # x.req.rid)
           => LET list == FirstOccurrences(x.customers) IN
              /\ x.req.phase = "fetch"
              /\ x.req.body[1] = list[Len(x.results) + 1]
              /\ \/ Invoked /\ x.id = callCount' /\ Len(x.results) = 0
                 \/ \E c \in pending :
                      /\ c.id = x.id /\ ChunkSettled(c)
                      /\ Len(x.results) = Len(c.results) + Len(c.req.body)
      /\ \A c \in pending :
           ChunkSettled(c)
           => IF \E x \in pending' : x.id = c.id
              THEN store' = store
              ELSE /\ done'.id = c.id
                   /\ Len(done'.result.results) = Len(FirstOccurrences(c.customers))
                   /\ \A k \in DOMAIN store' : k.name \notin CustomerNames
      /\ (Invoked /\ NewCall.op = "createCustomers" /\ done'.id # callCount')
         => store' = store
    ]_vars

(* the first chunk has completed and the second is in flight, with a *)
(* customer entry still in the cache                                 *)
C19_Witness ==
  \E c \in pending :
    /\ c.op = "createCustomers"
    /\ Len(c.results) = ChunkSize
    /\ c.req.phase = "fetch"
    /\ \E k \in DOMAIN store : k.name \in CustomerNames

-----------------------------------------------------------------------------
(* Customer reads in flight across a customer write *)

CustomerReads == {"getCustomer", "listCustomers"}

(* C20: once a customer write has returned, the cache holds no customer   *)
(* entry whose value came from a request issued before the write's        *)
(* request completed: a customer read whose request was issued before the *)
(* customer write that returned last completed stores no entry when it    *)
(* resolves.                                                              *)
C20_InvalidationNotUndone ==
  [][ \A c \in pending :
        (/\ RequestSettled(c) /\ c.op \in CustomerReads
         /\ done.op \in CustomerWrites /\ done.ok
         /\ c.req.rid <= done.requests)
        => c.cacheKey \notin DOMAIN store'
    ]_vars

-----------------------------------------------------------------------------
(* The result of createCustomers *)

(* the distinct lower-cased non-empty emails of an input list *)
DistinctEmails(customers) ==
  {toLowerCase(customers[i].email) :
     i \in {j \in 1..Len(customers) : truthy(customers[j].email)}}

(* C21: the result of createCustomers has success_count + error_count =   *)
(* length of results = number of distinct lower-cased non-empty emails of *)
(* the input, success_count is the number of results marked success:true, *)
(* and the results are listed in the order of the de-duplicated list; an  *)
(* entry whose email is missing or empty is in no request, in no result   *)
(* and in neither count.                                                  *)
C21_ResultCounts ==
  /\ done.op = "createCustomers"
     => LET r == done.result
            n == Cardinality(DistinctEmails(done.customers))
        IN
        /\ r.success_count + r.error_count = Len(r.results)
        /\ Len(r.results) = n
        /\ r.success_count =
             Cardinality({k \in 1..Len(r.results) : r.results[k].success})
        /\ r.error_count =
             Cardinality({k \in 1..Len(r.results) : ~r.results[k].success})
        /\ Emails(r.results) = Emails(FirstOccurrences(done.customers))
        /\ \A k \in 1..Len(r.results) : truthy(r.results[k].email)
  /\ \A c \in pending :
       c.op = "createCustomers"
       => /\ \A k \in 1..Len(c.req.body) : truthy(c.req.body[k].email)
          /\ \A k \in 1..Len(c.results) : truthy(c.results[k].email)
          /\ c.successCount + c.errorCount = Len(c.results)
          /\ Len(c.results) + Len(c.req.body)
               <= Cardinality(DistinctEmails(c.customers))

(* a list with an entry without email, an entry with an empty email and *)
(* a full chunk of distinct emails: two entries dropped, the rest        *)
(* submitted in one request that succeeded                               *)
C21_Witness ==
  /\ done.op = "createCustomers"
  /\ \E i \in 1..Len(done.customers) : done.customers[i].email = undefined
  /\ \E i \in 1..Len(done.customers) : done.customers[i].email = ""
  /\ Len(done.customers) = ChunkSize + 2
  /\ Len(done.result.results) = ChunkSize
  /\ done.result.success_count = ChunkSize
  /\ done.result.error_count = 0
  /\ httpCount = 1

====
